---- MODULE Spec2Model ----
(***************************************************************************)
(* Flight timetable, crew roster and maintenance workflow of the airline   *)
(* backend (FastAPI handlers over one SQL store).  Every handler is one    *)
(* action; the store's tables are the variables.                           *)
(***************************************************************************)
EXTENDS Integers, Sequences, FiniteSets, TLC

VARIABLES
    flights,                \* table flights: rows keyed by (flight_number, date)
    crew_schedules,         \* table crew_schedules
    aircraft,               \* table aircraft: registration_number -> row
    routes,                 \* table routes: route_id -> approved_capacity
    crew,                   \* table crew: email_id -> is_pilot
    jobs,                   \* table maintenance_history: job_id (1..Len) -> row
    engineer_maintenances,  \* table engineer_maintenances
    aircraft_parts,         \* table aircraft_parts
    now,                    \* the UTC clock read by datetime.utcnow()
    txn                     \* requests between their validation and their commit

vars == <<flights, crew_schedules, aircraft, routes, crew, jobs,
          engineer_maintenances, aircraft_parts, now, txn>>

(***************************************************************************)
(* Bounds of the model.                                                    *)
(***************************************************************************)
MaxTime == 2
MaxFlights == 2
MaxJobs == 2

Times == 0..MaxTime
Dates == {1, 2}
FlightNumbers == {"AA100", "AA200"}
Registrations == {"N100", "N200"}
NoAircraft == "N999"
RouteIds == {1, 2}
NoRoute == Cardinality(RouteIds) + 1
CrewEmails == {"p@x.com", "c@x.com"}
NoCrew == "u@x.com"
EngineerEmails == {"e1@x.com", "e2@x.com"}
NoEngineer == "e9@x.com"
Procs == {1, 2}

\* Optional[T]: {} is None, {v} is the value v.
Opt(S) == {{}} \cup {{x} : x \in S}
Val(o) == CHOOSE x \in o : TRUE
OrElse(o, d) == IF o = {} THEN d ELSE Val(o)

(***************************************************************************)
(* Enumerations of models.py and the engineer leader role.                 *)
(***************************************************************************)
AircraftStatus == {"active", "maintenance", "retired"}
MaintenanceStatus == {"pending", "in_progress", "completed", "cancelled"}
LEADER_ROLE == "Leader"
Roles == {LEADER_ROLE, "Member"}

\* datetime.combine(date, time): instants compare by date, then by time.
Combine(d, t) == d * (MaxTime + 2) + t
NowDt == Combine(now.date, now.time)

Flight(fn, d, r, dep, arr, reg) ==
    [flight_number |-> fn, date |-> d, route_id |-> r,
     scheduled_departure_time |-> dep, scheduled_arrival_time |-> arr,
     aircraft_registration |-> reg]

CrewSchedule(fn, d, dep, e) ==
    [flight_number |-> fn, date |-> d, scheduled_departure_time |-> dep,
     email_id |-> e]

\* db.query(Flight).filter(flight_number == fn, date == d)
FlightByPk(fn, d) == {f \in flights : f.flight_number = fn /\ f.date = d}

\* db.query(CrewSchedule).filter(flight_number == fn, date == d)
SchedulesOf(fn, d) ==
    {cs \in crew_schedules : cs.flight_number = fn /\ cs.date = d}

(***************************************************************************)
(* validate_flight_business_rules                                          *)
(***************************************************************************)
\* The scan that only looks for a stored departure inside the new window.
overlap_query_departure_inside(reg, flight_date, dep, arr, ignore) ==
    {f \in flights :
        /\ f.aircraft_registration = reg
        /\ f.date = flight_date
        /\ dep <= f.scheduled_departure_time
        /\ f.scheduled_departure_time < arr
        /\ (ignore = {} \/ f.flight_number # Val(ignore)[1]
                        \/ f.date # Val(ignore)[2])}

\* The scan over closed intervals.
overlap_query_closed(reg, flight_date, dep, arr, ignore) ==
    {f \in flights :
        /\ f.aircraft_registration = reg
        /\ f.date = flight_date
        /\ f.scheduled_departure_time <= arr
        /\ f.scheduled_arrival_time >= dep
        /\ (ignore = {} \/ f.flight_number # Val(ignore)[1]
                        \/ f.date # Val(ignore)[2])}

\* The scan that skips every flight sharing the number or the date of the
\* flight being updated.
overlap_query_ignore_number_or_date(reg, flight_date, dep, arr, ignore) ==
    {f \in flights :
        /\ f.aircraft_registration = reg
        /\ f.date = flight_date
        /\ f.scheduled_departure_time < arr
        /\ f.scheduled_arrival_time > dep
        /\ (ignore = {} \/ (f.flight_number # Val(ignore)[1]
                            /\ f.date # Val(ignore)[2]))}

\* The scan that never skips the flight being updated.
overlap_query_no_ignore(reg, flight_date, dep, arr, ignore) ==
    {f \in flights :
        /\ f.aircraft_registration = reg
        /\ f.date = flight_date
        /\ f.scheduled_departure_time < arr
        /\ f.scheduled_arrival_time > dep}

\* The scan that looks for a stored departure or arrival inside the new
\* window.
overlap_query_endpoint_inside(reg, flight_date, dep, arr, ignore) ==
    {f \in flights :
        /\ f.aircraft_registration = reg
        /\ f.date = flight_date
        /\ \/ dep <= f.scheduled_departure_time
              /\ f.scheduled_departure_time < arr
           \/ dep < f.scheduled_arrival_time
              /\ f.scheduled_arrival_time <= arr
        /\ (ignore = {} \/ f.flight_number # Val(ignore)[1]
                        \/ f.date # Val(ignore)[2])}

\* The overlap query; ignore is None or the (flight_number, date) of the
\* flight being updated.
overlap_query(reg, flight_date, dep, arr, ignore) ==
    {f \in flights :
        /\ f.aircraft_registration = reg
        /\ f.date = flight_date
        /\ f.scheduled_departure_time < arr
        /\ f.scheduled_arrival_time > dep
        /\ (ignore = {} \/ f.flight_number # Val(ignore)[1]
                        \/ f.date # Val(ignore)[2])}

\* The rules with the time window looked at before the capacity.
validate_rules_time_first(fn, flight_date, route_id, dep, arr, reg, ignore) ==
    IF route_id \notin DOMAIN routes THEN "RouteNotFound"
    ELSE IF reg \notin DOMAIN aircraft THEN "AircraftNotFound"
    ELSE IF aircraft[reg].status # "active" THEN "AircraftNotActive"
    ELSE IF Combine(flight_date, dep) < NowDt THEN "DepartureInPast"
    ELSE IF Combine(flight_date, arr) <= Combine(flight_date, dep)
         THEN "ArrivalNotAfterDeparture"
    ELSE IF aircraft[reg].capacity > routes[route_id] THEN "CapacityExceeded"
    ELSE IF overlap_query(reg, flight_date, dep, arr, ignore) # {}
         THEN "AircraftDoubleBooked"
    ELSE "ok"

validate_flight_business_rules(fn, flight_date, route_id, dep, arr, reg, ignore) ==
    IF route_id \notin DOMAIN routes THEN "RouteNotFound"
    ELSE IF reg \notin DOMAIN aircraft THEN "AircraftNotFound"
    ELSE IF aircraft[reg].status # "active" THEN "AircraftNotActive"
    ELSE IF aircraft[reg].capacity > routes[route_id] THEN "CapacityExceeded"
    ELSE IF Combine(flight_date, dep) < NowDt THEN "DepartureInPast"
    ELSE IF Combine(flight_date, arr) <= Combine(flight_date, dep)
         THEN "ArrivalNotAfterDeparture"
    ELSE IF overlap_query(reg, flight_date, dep, arr, ignore) # {}
         THEN "AircraftDoubleBooked"
    ELSE "ok"

(***************************************************************************)
(* create_flight                                                           *)
(***************************************************************************)
create_flight_error(req) ==
    IF FlightByPk(req.flight_number, req.date) # {} THEN "DuplicateKey"
    ELSE validate_flight_business_rules(
            req.flight_number, req.date, req.route_id,
            req.scheduled_departure_time, req.scheduled_arrival_time,
            req.aircraft_registration, {})

\* The rows of flights once the handler has returned.
create_flight_rows(req) ==
    IF create_flight_error(req) = "ok" THEN flights \cup {req} ELSE flights

create_flight(req) ==
    /\ Cardinality(flights) < MaxFlights
    /\ flights' = create_flight_rows(req)
    /\ UNCHANGED <<crew_schedules, aircraft, routes, crew, jobs,
                   engineer_maintenances, aircraft_parts, now, txn>>

(***************************************************************************)
(* update_flight                                                           *)
(***************************************************************************)
\* The effective values of the flight after the patch upd.
Effective(flight, upd) ==
    Flight(flight.flight_number,
           OrElse(upd.date, flight.date),
           OrElse(upd.route_id, flight.route_id),
           OrElse(upd.scheduled_departure_time, flight.scheduled_departure_time),
           OrElse(upd.scheduled_arrival_time, flight.scheduled_arrival_time),
           OrElse(upd.aircraft_registration, flight.aircraft_registration))

\* The checks without the (flight_number, date) uniqueness check.
update_flight_error_no_conflict_check(fn, flight_date, upd) ==
    IF FlightByPk(fn, flight_date) = {} THEN "NotFound"
    ELSE LET flight == Val(FlightByPk(fn, flight_date))
             new == Effective(flight, upd)
         IN  validate_flight_business_rules(
                fn, new.date, new.route_id, new.scheduled_departure_time,
                new.scheduled_arrival_time, new.aircraft_registration,
                {<<fn, flight.date>>})

update_flight_error(fn, flight_date, upd) ==
    IF FlightByPk(fn, flight_date) = {} THEN "NotFound"
    ELSE LET flight == Val(FlightByPk(fn, flight_date))
             new == Effective(flight, upd)
         IN  IF new.date # flight.date /\ FlightByPk(fn, new.date) # {}
             THEN "DuplicateKey"
             ELSE validate_flight_business_rules(
                    fn, new.date, new.route_id, new.scheduled_departure_time,
                    new.scheduled_arrival_time, new.aircraft_registration,
                    {<<fn, flight.date>>})

\* The bulk UPDATE of crew_schedules issued while the patch is applied.  It
\* runs before the flight row is flushed (autoflush is off) and filters on
\* the flight object's date, which the patch has already overwritten.
update_schedule_rows(flight, upd) ==
    IF upd.scheduled_departure_time = {} THEN crew_schedules
    ELSE LET filter_date == IF upd.date # {} /\ Val(upd.date) # flight.date
                            THEN Val(upd.date) ELSE flight.date
             hit(cs) == /\ cs.flight_number = flight.flight_number
                        /\ cs.date = filter_date
                        /\ cs.scheduled_departure_time
                              = flight.scheduled_departure_time
         IN  {IF hit(cs)
              THEN [cs EXCEPT !.scheduled_departure_time =
                                    Val(upd.scheduled_departure_time)]
              ELSE cs : cs \in crew_schedules}

\* A foreign key without ON UPDATE CASCADE that lets the flight move alone.
cascade_rekey_none(rows, flight, new_date) == rows

\* ON UPDATE CASCADE of crew_schedules_ibfk_1: the rows of the flight follow
\* its (flight_number, date) when the flight row is flushed at commit.
cascade_rekey(rows, flight, new_date) ==
    {IF cs.flight_number = flight.flight_number /\ cs.date = flight.date
     THEN [cs EXCEPT !.date = new_date]
     ELSE cs : cs \in rows}

\* The rows the commit of an accepted patch writes.
patched_flights(flight, upd) == (flights \ {flight}) \cup {Effective(flight, upd)}

patched_schedules(flight, upd) ==
    cascade_rekey(update_schedule_rows(flight, upd), flight,
                  Effective(flight, upd).date)

\* The rows of flights and crew_schedules after the call: those the commit
\* writes, or the stored ones when the call raises.
update_flight_rows(fn, flight_date, upd) ==
    IF update_flight_error(fn, flight_date, upd) = "ok"
    THEN LET flight == Val(FlightByPk(fn, flight_date))
         IN  [flights |-> patched_flights(flight, upd),
              crew_schedules |-> patched_schedules(flight, upd)]
    ELSE [flights |-> flights, crew_schedules |-> crew_schedules]

update_flight(fn, flight_date, upd) ==
    /\ IF update_flight_error(fn, flight_date, upd) = "ok"
       THEN LET flight == Val(FlightByPk(fn, flight_date))
            IN  /\ flights' = patched_flights(flight, upd)
                /\ crew_schedules' = patched_schedules(flight, upd)
       ELSE UNCHANGED <<flights, crew_schedules>>
    /\ UNCHANGED <<aircraft, routes, crew, jobs, engineer_maintenances,
                   aircraft_parts, now, txn>>

(***************************************************************************)
(* delete_flight                                                           *)
(***************************************************************************)
\* The relationship is passive_deletes and the rows were never loaded, so the
\* session issues one DELETE on flights; the foreign key of crew_schedules is
\* ON DELETE RESTRICT.
delete_flight_error(fn, flight_date) ==
    IF FlightByPk(fn, flight_date) = {} THEN "NotFound"
    ELSE IF SchedulesOf(fn, flight_date) # {} THEN "IntegrityError"
    ELSE "ok"

\* The rows of flights after the call.
delete_flight_rows(fn, flight_date) ==
    IF delete_flight_error(fn, flight_date) = "ok"
    THEN flights \ FlightByPk(fn, flight_date)
    ELSE flights

delete_flight(fn, flight_date) ==
    /\ flights' = delete_flight_rows(fn, flight_date)
    /\ UNCHANGED <<crew_schedules, aircraft, routes, crew, jobs,
                   engineer_maintenances, aircraft_parts, now, txn>>

(***************************************************************************)
(* The clock.                                                              *)
(***************************************************************************)
Tick ==
    /\ now.time < MaxTime
    /\ now' = [now EXCEPT !.time = @ + 1]
    /\ UNCHANGED <<flights, crew_schedules, aircraft, routes, crew, jobs,
                   engineer_maintenances, aircraft_parts, txn>>


(***************************************************************************)
(* assign_crew_to_flight                                                   *)
(***************************************************************************)
\* set(payload.crew_emails)
Emails(payload) == {payload[i] : i \in DOMAIN payload}

\* The scan that also counts the rows of the target flight itself.
crew_overlap_with_self(c, flight) ==
    {cs \in crew_schedules :
        /\ cs.email_id = c
        /\ \E f \in flights :
              /\ cs.flight_number = f.flight_number
              /\ cs.date = f.date
              /\ f.date = flight.date
              /\ f.scheduled_departure_time < flight.scheduled_arrival_time
              /\ f.scheduled_arrival_time > flight.scheduled_departure_time}

\* The rows of crew member c on another flight number of the same date whose
\* flight overlaps the target flight.
crew_overlap(c, flight) ==
    {cs \in crew_schedules :
        /\ cs.email_id = c
        /\ \E f \in flights :
              /\ cs.flight_number = f.flight_number
              /\ cs.date = f.date
              /\ f.date = flight.date
              /\ f.scheduled_departure_time < flight.scheduled_arrival_time
              /\ f.scheduled_arrival_time > flight.scheduled_departure_time
              /\ f.flight_number # flight.flight_number}

\* flight.date < today or (flight.date == today and departure <= now.time())
flight_in_past(flight) ==
    \/ flight.date < now.date
    \/ flight.date = now.date /\ flight.scheduled_departure_time <= now.time

assign_crew_error(fn, flight_date, payload) ==
    IF FlightByPk(fn, flight_date) = {} THEN "NotFound"
    ELSE LET flight == Val(FlightByPk(fn, flight_date))
             crew_members == Emails(payload) \cap DOMAIN crew
         IN  IF payload = <<>> THEN "EmptyRoster"
             ELSE IF flight_in_past(flight) THEN "PastFlight"
             ELSE IF Emails(payload) \ DOMAIN crew # {} THEN "UnknownCrew"
             ELSE IF ~ \E c \in crew_members : crew[c].is_pilot
                  THEN "NoPilotAssigned"
             ELSE IF \E c \in crew_members : crew_overlap(c, flight) # {}
                  THEN "CrewDoubleBooked"
             ELSE "ok"

\* The rows after a call that inserts without clearing the flight's rows.
assign_crew_rows_incremental(fn, flight_date, payload) ==
    IF assign_crew_error(fn, flight_date, payload) = "ok"
    THEN LET flight == Val(FlightByPk(fn, flight_date))
         IN  crew_schedules
             \cup {CrewSchedule(fn, flight.date,
                                flight.scheduled_departure_time, c) :
                     c \in Emails(payload) \cap DOMAIN crew}
    ELSE crew_schedules

\* The rows of crew_schedules after the call.
assign_crew_rows(fn, flight_date, payload) ==
    IF assign_crew_error(fn, flight_date, payload) = "ok"
    THEN LET flight == Val(FlightByPk(fn, flight_date))
         IN  (crew_schedules \ SchedulesOf(fn, flight_date))
             \cup {CrewSchedule(fn, flight.date,
                                flight.scheduled_departure_time, c) :
                     c \in Emails(payload) \cap DOMAIN crew}
    ELSE crew_schedules

assign_crew_to_flight(fn, flight_date, payload) ==
    /\ crew_schedules' = assign_crew_rows(fn, flight_date, payload)
    /\ UNCHANGED <<flights, aircraft, routes, crew, jobs,
                   engineer_maintenances, aircraft_parts, now, txn>>

(***************************************************************************)
(* Administration: update_crew_role, update_aircraft, update_route         *)
(***************************************************************************)
update_crew_role(email_id, is_pilot) ==
    /\ IF email_id \in DOMAIN crew
       THEN crew' = [crew EXCEPT ![email_id].is_pilot = is_pilot]
       ELSE crew' = crew
    /\ UNCHANGED <<flights, crew_schedules, aircraft, routes, jobs,
                   engineer_maintenances, aircraft_parts, now, txn>>

MinutesPerDay == 1440
MinutesOfDay == 0..(MinutesPerDay - 1)

\* The duration with an arrival at the departure's minute taken as the same
\* day.
compute_duration_minutes_same_minute(flight_date, dep_time, arr_time) ==
    LET start == flight_date * MinutesPerDay + dep_time
        end == flight_date * MinutesPerDay + arr_time
    IN  IF end < start THEN (end + MinutesPerDay) - start ELSE end - start

\* _compute_duration_minutes: datetime.combine() of the date with each time,
\* in minutes since the start of date 0; a day is added to an end that is
\* not after the start.
compute_duration_minutes(flight_date, dep_time, arr_time) ==
    LET start == flight_date * MinutesPerDay + dep_time
        end == flight_date * MinutesPerDay + arr_time
    IN  IF end <= start THEN (end + MinutesPerDay) - start ELSE end - start

\* base_query of crew_dashboard: one row for every pair of a flight and a
\* crew_schedules row of the caller with the flight's number.
dashboard_rows(email) ==
    {<<f, cs>> \in flights \X crew_schedules :
        cs.flight_number = f.flight_number /\ cs.email_id = email}

RECURSIVE total_minutes(_)
total_minutes(rows) ==
    IF rows = {} THEN 0
    ELSE LET row == CHOOSE r \in rows : TRUE
         IN  compute_duration_minutes(row[1].date,
                                      row[1].scheduled_departure_time,
                                      row[1].scheduled_arrival_time)
             + total_minutes(rows \ {row})

\* GET /crew/dashboard: the minutes of the past rows, and the flights that
\* upcoming_query.first() can return (the rows that no other row precedes
\* in the order by date and departure time); {} when there is none.
crew_dashboard(email) ==
    LET upcoming == {r \in dashboard_rows(email) :
                       \/ r[1].date > now.date
                       \/ /\ r[1].date = now.date
                          /\ r[1].scheduled_departure_time >= now.time}
        past == {r \in dashboard_rows(email) :
                   \/ r[1].date < now.date
                   \/ /\ r[1].date = now.date
                      /\ r[1].scheduled_arrival_time < now.time}
        before(a, b) ==
            \/ a.date < b.date
            \/ /\ a.date = b.date
               /\ a.scheduled_departure_time < b.scheduled_departure_time
    IN  [total_minutes_completed |-> total_minutes(past),
         next_flight |-> {r[1] : r \in {u \in upcoming :
                                          \A v \in upcoming :
                                             ~ before(v[1], u[1])}}]

\* GET /crew/my-flights: the flights joined to the caller's crew_schedules
\* rows on the flight number. The set holds the rows of the response, without
\* their order and their repetitions.
get_my_flights(email, upcoming_only) ==
    {f \in flights :
        /\ \E cs \in crew_schedules :
              cs.flight_number = f.flight_number /\ cs.email_id = email
        /\ upcoming_only
              => \/ f.date > now.date
                 \/ f.date = now.date /\ f.scheduled_departure_time >= now.time}

\* GET /crew/my-flights/{flight_number}: the responses the query can give.
\* first() has no ORDER BY, so any joined row can be the one returned; the
\* crew list is read from crew_schedules by flight number.
get_my_flight_detail(email, flight_number) ==
    LET rows == {f \in flights :
                    /\ f.flight_number = flight_number
                    /\ f.aircraft_registration \in DOMAIN aircraft
                    /\ f.route_id \in DOMAIN routes
                    /\ \E cs \in crew_schedules :
                          /\ cs.flight_number = f.flight_number
                          /\ cs.email_id = email}
        crew_emails == {cs.email_id :
                          cs \in {r \in crew_schedules :
                                     r.flight_number = flight_number}}
    IN  IF rows = {} THEN {[error |-> "NotFound"]}
        ELSE {[error |-> "ok", flight |-> f,
               crew |-> crew_emails \cap DOMAIN crew] : f \in rows}

update_aircraft(req) ==
    /\ IF req.registration_number \in DOMAIN aircraft
       THEN aircraft' =
              [aircraft EXCEPT ![req.registration_number] =
                  [capacity |-> OrElse(req.capacity, @.capacity),
                   status |-> OrElse(req.status, @.status)]]
       ELSE aircraft' = aircraft
    /\ UNCHANGED <<flights, crew_schedules, routes, crew, jobs,
                   engineer_maintenances, aircraft_parts, now, txn>>

update_route(req) ==
    /\ IF req.route_id \in DOMAIN routes
       THEN routes' = [routes EXCEPT ![req.route_id] =
                          OrElse(req.approved_capacity, @)]
       ELSE routes' = routes
    /\ UNCHANGED <<flights, crew_schedules, aircraft, crew, jobs,
                   engineer_maintenances, aircraft_parts, now, txn>>

(***************************************************************************)
(* Maintenance workflow: create_job, add_engineers_to_job,                 *)
(* close_maintenance_job                                                   *)
(***************************************************************************)
Job(reg, st, out, remarks) ==
    [registration_number |-> reg, status |-> st, checkout_date |-> out,
     remarks |-> remarks]

EngineerMaintenance(job_id, e, role) ==
    [job_id |-> job_id, engineer_email_id |-> e, role |-> role]

OpenStatuses == {"pending", "in_progress"}

\* table engineers (never written by the operations modelled here)
\* The engineers table: the engineers who send requests and one more who is
\* only ever named in a payload.
Engineers == EngineerEmails \cup {"e3@x.com"}

\* The scan that looks for jobs in progress only.
existing_open_job_in_progress(reg) ==
    {j \in DOMAIN jobs :
        jobs[j].registration_number = reg /\ jobs[j].status = "in_progress"}

\* The open-job-exists scan of create_job.
existing_open_job(reg) ==
    {j \in DOMAIN jobs :
        jobs[j].registration_number = reg /\ jobs[j].status \in OpenStatuses}

\* The checks without the one on retired aircraft.
create_job_error_ignores_retired(email, reg) ==
    IF email \notin Engineers THEN "EngineerNotFound"
    ELSE IF reg \notin DOMAIN aircraft THEN "AircraftNotFound"
    ELSE IF existing_open_job(reg) # {} THEN "AircraftAlreadyInOpenJob"
    ELSE "ok"

create_job_error(email, reg) ==
    IF email \notin Engineers THEN "EngineerNotFound"
    ELSE IF reg \notin DOMAIN aircraft THEN "AircraftNotFound"
    ELSE IF aircraft[reg].status = "retired" THEN "AircraftRetired"
    ELSE IF existing_open_job(reg) # {} THEN "AircraftAlreadyInOpenJob"
    ELSE "ok"

\* The first commit without the write of the aircraft status.
insert_job_keeps_status(reg, remarks, seen_status) ==
    /\ jobs' = Append(jobs, Job(reg, "pending", {}, remarks))
    /\ aircraft' = aircraft

\* The first commit of create_job: the job row, and the aircraft status when
\* the status the session read (seen_status) was not maintenance.
insert_job(reg, remarks, seen_status) ==
    /\ jobs' = Append(jobs, Job(reg, "pending", {}, remarks))
    /\ aircraft' = IF seen_status # "maintenance"
                   THEN [aircraft EXCEPT ![reg].status = "maintenance"]
                   ELSE aircraft

create_job(email, reg, remarks) ==
    /\ Len(jobs) < MaxJobs
    /\ IF create_job_error(email, reg) = "ok"
       THEN /\ insert_job(reg, remarks, aircraft[reg].status)
            /\ engineer_maintenances' = engineer_maintenances \cup
                  {EngineerMaintenance(Len(jobs) + 1, email, LEADER_ROLE)}
       ELSE UNCHANGED <<jobs, aircraft, engineer_maintenances>>
    /\ UNCHANGED <<flights, crew_schedules, routes, crew, aircraft_parts, now,
                   txn>>

\* db.query(EngineerMaintenance).filter(job_id == j, engineer_email_id == e)
LinkOf(links, job_id, e) ==
    {l \in links : l.job_id = job_id /\ l.engineer_email_id = e}

\* The check that accepts every engineer linked to the job.
is_leader_any_role(links, job_id, email) ==
    LinkOf(links, job_id, email) # {}

is_leader(links, job_id, email) ==
    \E l \in LinkOf(links, job_id, email) : l.role = LEADER_ROLE

\* The upsert loop over payload.engineers[i..]: links are the rows as the
\* session holds them, added are the e-mails of the rows it has db.add()ed.
\* A second db.add() of the same key fails at flush.
RECURSIVE upsert(_, _, _, _, _)
upsert(links, added, job_id, items, i) ==
    IF i > Len(items) THEN [error |-> "ok", links |-> links]
    ELSE LET item == items[i]
             link == {l \in LinkOf(links, job_id, item.email_id) :
                        l.engineer_email_id \notin added}
         IN  IF item.email_id \notin Engineers
             THEN [error |-> "UnknownEngineer", links |-> links]
             ELSE IF link # {}
             THEN upsert((links \ link) \cup
                           {EngineerMaintenance(job_id, item.email_id, item.role)},
                         added, job_id, items, i + 1)
             ELSE IF item.email_id \in added
             THEN [error |-> "IntegrityError", links |-> links]
             ELSE upsert(links \cup
                           {EngineerMaintenance(job_id, item.email_id, item.role)},
                         added \cup {item.email_id}, job_id, items, i + 1)

\* The recount that only tells whether the job has a leader.
leader_count_some(links, job_id) ==
    IF \E l \in links : l.job_id = job_id /\ l.role = LEADER_ROLE
    THEN 1 ELSE 0

leader_count(links, job_id) ==
    Cardinality({l \in links : l.job_id = job_id /\ l.role = LEADER_ROLE})

\* The checks without the recount of the leaders.
add_engineers_error_no_recount(caller, job_id, items) ==
    IF job_id \notin DOMAIN jobs THEN "JobNotFound"
    ELSE IF jobs[job_id].status \in {"completed", "cancelled"} THEN "JobClosed"
    ELSE IF ~ is_leader(engineer_maintenances, job_id, caller) THEN "NotLeader"
    ELSE IF items = <<>> THEN "NoEngineers"
    ELSE upsert(engineer_maintenances, {}, job_id, items, 1).error

add_engineers_error(caller, job_id, items) ==
    IF job_id \notin DOMAIN jobs THEN "JobNotFound"
    ELSE IF jobs[job_id].status \in {"completed", "cancelled"} THEN "JobClosed"
    ELSE IF ~ is_leader(engineer_maintenances, job_id, caller) THEN "NotLeader"
    ELSE IF items = <<>> THEN "NoEngineers"
    ELSE LET r == upsert(engineer_maintenances, {}, job_id, items, 1)
         IN  IF r.error # "ok" THEN r.error
             ELSE IF leader_count(r.links, job_id) = 0 THEN "NoLeader"
             ELSE IF leader_count(r.links, job_id) > 1 THEN "ManyLeaders"
             ELSE "ok"

\* The rows after a call that commits whatever the loop has written.
add_engineers_rows_partial(caller, job_id, items) ==
    IF add_engineers_error(caller, job_id, items)
          \in {"JobNotFound", "JobClosed", "NotLeader", "NoEngineers"}
    THEN engineer_maintenances
    ELSE upsert(engineer_maintenances, {}, job_id, items, 1).links

\* The rows of engineer_maintenances after the call: the session's rows when
\* it commits; the stored ones when it raises, since the session is rolled
\* back or closed without a commit.
add_engineers_rows(caller, job_id, items) ==
    IF add_engineers_error(caller, job_id, items) = "ok"
    THEN upsert(engineer_maintenances, {}, job_id, items, 1).links
    ELSE engineer_maintenances

add_engineers_to_job(caller, job_id, items) ==
    /\ engineer_maintenances' = add_engineers_rows(caller, job_id, items)
    /\ UNCHANGED <<flights, crew_schedules, aircraft, routes, crew, jobs,
                   aircraft_parts, now, txn>>

\* The checks without the ones on the job's status.
close_job_error_any_status(caller, job_id) ==
    IF job_id \notin DOMAIN jobs THEN "JobNotFound"
    ELSE IF ~ is_leader(engineer_maintenances, job_id, caller) THEN "NotLeader"
    ELSE "ok"

close_job_error(caller, job_id) ==
    IF job_id \notin DOMAIN jobs THEN "JobNotFound"
    ELSE IF jobs[job_id].status = "completed" THEN "AlreadyCompleted"
    ELSE IF jobs[job_id].status = "cancelled" THEN "AlreadyCancelled"
    ELSE IF ~ is_leader(engineer_maintenances, job_id, caller) THEN "NotLeader"
    ELSE "ok"

\* The handler that puts the aircraft back to active whatever its status.
close_maintenance_job_always_active(caller, job_id, remarks) ==
    /\ IF close_job_error(caller, job_id) = "ok"
       THEN LET reg == jobs[job_id].registration_number
            IN  /\ jobs' = [jobs EXCEPT ![job_id] =
                              Job(reg, "completed", {now.time},
                                  OrElse(remarks, @.remarks))]
                /\ aircraft' = [aircraft EXCEPT ![reg].status = "active"]
       ELSE UNCHANGED <<jobs, aircraft>>
    /\ UNCHANGED <<flights, crew_schedules, routes, crew,
                   engineer_maintenances, aircraft_parts, now, txn>>

close_maintenance_job(caller, job_id, remarks) ==
    /\ IF close_job_error(caller, job_id) = "ok"
       THEN LET reg == jobs[job_id].registration_number
            IN  /\ jobs' = [jobs EXCEPT ![job_id] =
                              Job(reg, "completed", {now.time},
                                  OrElse(remarks, @.remarks))]
                /\ aircraft' =
                      IF reg \in DOMAIN aircraft
                         /\ aircraft[reg].status = "maintenance"
                      THEN [aircraft EXCEPT ![reg].status = "active"]
                      ELSE aircraft
       ELSE UNCHANGED <<jobs, aircraft>>
    /\ UNCHANGED <<flights, crew_schedules, routes, crew,
                   engineer_maintenances, aircraft_parts, now, txn>>

(***************************************************************************)
(* add_part_to_aircraft                                                    *)
(***************************************************************************)
AircraftPart(part_number, manufacturing_date, reg) ==
    [part_number |-> part_number, manufacturing_date |-> manufacturing_date,
     aircraft_registration |-> reg]

add_part_error(reg, payload) ==
    IF reg \notin DOMAIN aircraft THEN "AircraftNotFound"
    ELSE IF aircraft[reg].status = "retired" THEN "AircraftRetired"
    ELSE IF payload.manufacturing_date > now.date THEN "FutureManufacturingDate"
    ELSE IF \E part \in aircraft_parts : part.part_number = payload.part_number
         THEN "PartExists"
    ELSE "ok"

\* The rows of aircraft_parts after the call.
add_part_rows(reg, payload) ==
    IF add_part_error(reg, payload) = "ok"
    THEN aircraft_parts \cup
            {AircraftPart(payload.part_number, payload.manufacturing_date, reg)}
    ELSE aircraft_parts

add_part_to_aircraft(reg, payload) ==
    /\ aircraft_parts' = add_part_rows(reg, payload)
    /\ UNCHANGED <<flights, crew_schedules, aircraft, routes, crew, jobs,
                   engineer_maintenances, now, txn>>

(***************************************************************************)
(* Requests served concurrently.  A handler's queries read the committed   *)
(* rows; its commit comes in a later step, and no lock is held in between. *)
(***************************************************************************)
Idle == [pc |-> "idle", req |-> {}]

\* create_flight up to the end of validate_flight_business_rules.
begin_create_flight(p, req) ==
    /\ txn[p].pc = "idle"
    /\ Cardinality(flights) < MaxFlights
    /\ IF create_flight_error(req) = "ok"
       THEN txn' = [txn EXCEPT ![p] = [pc |-> "validated", req |-> {req}]]
       ELSE txn' = txn
    /\ UNCHANGED <<flights, crew_schedules, aircraft, routes, crew, jobs,
                   engineer_maintenances, aircraft_parts, now>>

\* db.add(flight); db.commit(): the INSERT fails on the primary key when the
\* (flight_number, date) has been stored meanwhile.
commit_create_flight(p) ==
    /\ txn[p].pc = "validated"
    /\ LET req == Val(txn[p].req)
       IN  IF FlightByPk(req.flight_number, req.date) # {}
           THEN /\ flights' = flights
                /\ txn' = [txn EXCEPT ![p].pc = "failed"]
           ELSE /\ flights' = flights \cup {req}
                /\ txn' = [txn EXCEPT ![p].pc = "committed"]
    /\ UNCHANGED <<crew_schedules, aircraft, routes, crew, jobs,
                   engineer_maintenances, aircraft_parts, now>>

\* create_job up to the open-job-exists scan.
begin_create_job(p, email, reg) ==
    /\ txn[p].pc = "idle"
    /\ Len(jobs) < MaxJobs
    /\ IF create_job_error(email, reg) = "ok"
       THEN txn' = [txn EXCEPT ![p] =
                      [pc |-> "job_validated",
                       req |-> {[email |-> email, reg |-> reg, job_id |-> 0,
                                 seen_status |-> aircraft[reg].status]}]]
       ELSE txn' = txn
    /\ UNCHANGED <<flights, crew_schedules, aircraft, routes, crew, jobs,
                   engineer_maintenances, aircraft_parts, now>>

\* The first db.commit() of create_job.
commit_job(p) ==
    /\ txn[p].pc = "job_validated"
    /\ LET req == Val(txn[p].req)
       IN  /\ insert_job(req.reg, "opened", req.seen_status)
           /\ txn' = [txn EXCEPT ![p] =
                        [pc |-> "job_inserted",
                         req |-> {[req EXCEPT !.job_id = Len(jobs) + 1]}]]
    /\ UNCHANGED <<flights, crew_schedules, routes, crew,
                   engineer_maintenances, aircraft_parts, now>>

\* The second db.commit() of create_job: the leader's row.
commit_leader(p) ==
    /\ txn[p].pc = "job_inserted"
    /\ LET req == Val(txn[p].req)
       IN  engineer_maintenances' = engineer_maintenances \cup
              {EngineerMaintenance(req.job_id, req.email, LEADER_ROLE)}
    /\ txn' = [txn EXCEPT ![p].pc = "job_committed"]
    /\ UNCHANGED <<flights, crew_schedules, aircraft, routes, crew, jobs,
                   aircraft_parts, now>>

\* assign_crew_to_flight up to the end of the per-member overlap scan, on the
\* rows committed so far.
begin_assign_crew(p, fn, flight_date, payload) ==
    /\ txn[p].pc = "idle"
    /\ IF assign_crew_error(fn, flight_date, payload) = "ok"
       THEN txn' = [txn EXCEPT ![p] =
                      [pc |-> "crew_validated",
                       req |-> {[flight |-> Val(FlightByPk(fn, flight_date)),
                                 payload |-> payload]}]]
       ELSE txn' = txn
    /\ UNCHANGED <<flights, crew_schedules, aircraft, routes, crew, jobs,
                   engineer_maintenances, aircraft_parts, now>>

\* The DELETE of the flight's rows, the INSERTs and db.commit().
commit_assign_crew(p) ==
    /\ txn[p].pc = "crew_validated"
    /\ LET flight == Val(txn[p].req).flight
           payload == Val(txn[p].req).payload
       IN  crew_schedules' =
              (crew_schedules \ SchedulesOf(flight.flight_number, flight.date))
              \cup {CrewSchedule(flight.flight_number, flight.date,
                                 flight.scheduled_departure_time, c) :
                      c \in Emails(payload) \cap DOMAIN crew}
    /\ txn' = [txn EXCEPT ![p].pc = "committed"]
    /\ UNCHANGED <<flights, aircraft, routes, crew, jobs,
                   engineer_maintenances, aircraft_parts, now>>

\* add_engineers_to_job up to the leader recount, on the rows committed when
\* the request starts: writes are the rows the session has changed or added
\* at db.flush(), inserted the e-mails of the rows it has added.
begin_add_engineers(p, caller, job_id, items) ==
    /\ txn[p].pc = "idle"
    /\ IF add_engineers_error(caller, job_id, items) = "ok"
       THEN LET links == upsert(engineer_maintenances, {}, job_id, items, 1).links
                writes == links \ engineer_maintenances
            IN  txn' = [txn EXCEPT ![p] =
                   [pc |-> "engineers_flushed",
                    req |-> {[job_id |-> job_id,
                              writes |-> writes,
                              inserted |->
                                {l.engineer_email_id :
                                   l \in {w \in writes :
                                            LinkOf(engineer_maintenances, job_id,
                                                   w.engineer_email_id) = {}}}]}]]
       ELSE txn' = txn
    /\ UNCHANGED <<flights, crew_schedules, aircraft, routes, crew, jobs,
                   engineer_maintenances, aircraft_parts, now>>

\* db.commit() of add_engineers_to_job: the UPDATEs and INSERTs reach the
\* stored rows; an INSERT of a key stored meanwhile fails on the primary key.
commit_add_engineers(p) ==
    /\ txn[p].pc = "engineers_flushed"
    /\ LET req == Val(txn[p].req)
           written == {w.engineer_email_id : w \in req.writes}
       IN  IF \E e \in req.inserted :
                 LinkOf(engineer_maintenances, req.job_id, e) # {}
           THEN /\ engineer_maintenances' = engineer_maintenances
                /\ txn' = [txn EXCEPT ![p].pc = "failed"]
           ELSE /\ engineer_maintenances' =
                      {l \in engineer_maintenances :
                          ~ (l.job_id = req.job_id
                             /\ l.engineer_email_id \in written)}
                      \cup req.writes
                /\ txn' = [txn EXCEPT ![p].pc = "committed"]
    /\ UNCHANGED <<flights, crew_schedules, aircraft, routes, crew, jobs,
                   aircraft_parts, now>>

\* A crew read handler calls _compute_duration_minutes on the times of a
\* flight row and puts the result in its response.
return_duration(p) ==
    /\ txn[p].pc = "duration_requested"
    /\ LET req == Val(txn[p].req)
       IN  txn' = [txn EXCEPT ![p] =
                     [pc |-> "duration_returned",
                      req |-> {[req EXCEPT !.duration_minutes =
                                   {compute_duration_minutes(
                                       req.date, req.scheduled_departure_time,
                                       req.scheduled_arrival_time)}]}]]
    /\ UNCHANGED <<flights, crew_schedules, aircraft, routes, crew, jobs,
                   engineer_maintenances, aircraft_parts, now>>

\* The response is sent and the worker serves the next request.
respond(p) ==
    /\ txn[p].pc \in {"committed", "failed", "job_committed"}
    /\ txn' = [txn EXCEPT ![p] = Idle]
    /\ UNCHANGED <<flights, crew_schedules, aircraft, routes, crew, jobs,
                   engineer_maintenances, aircraft_parts, now>>

(***************************************************************************)
(* Requests.                                                               *)
(***************************************************************************)
CreateRequests ==
    {Flight(fn, d, r, dep, arr, reg) :
        fn \in FlightNumbers, d \in Dates, r \in RouteIds \cup {NoRoute},
        dep \in Times, arr \in Times, reg \in Registrations \cup {NoAircraft}}

UpdateRequests ==
    [route_id : Opt(RouteIds \cup {NoRoute}),
     date : Opt(Dates) \ {{}},
     scheduled_departure_time : Opt(Times),
     scheduled_arrival_time : Opt(Times),
     aircraft_registration : Opt(Registrations \cup {NoAircraft})]

\* Requests that name route 1 and a registered aircraft.
PlainCreateRequests ==
    {req \in CreateRequests :
        req.route_id = 1 /\ req.aircraft_registration \in Registrations}

\* Patches of the date, the times and the aircraft.
PlainUpdateRequests ==
    {upd \in UpdateRequests :
        upd.route_id = {} /\ upd.aircraft_registration # {NoAircraft}}

\* Requests of the roster's timetable: each flight number flies its own
\* aircraft on route 1, between the times 0..2.
RosterCreateRequests ==
    {req \in PlainCreateRequests :
        /\ req.aircraft_registration
              = (IF req.flight_number = "AA100" THEN "N100" ELSE "N200")
        /\ req.scheduled_departure_time \in 0..2
        /\ req.scheduled_arrival_time \in 0..2}

\* Patches of the date and the times.
RosterUpdateRequests ==
    {upd \in PlainUpdateRequests :
        /\ upd.aircraft_registration = {}
        /\ upd.scheduled_departure_time \in Opt(0..2)
        /\ upd.scheduled_arrival_time \in Opt(0..2)}

\* Requests for a flight today.
TodayCreateRequests == {req \in CreateRequests : req.date = 1}

\* payload.crew_emails: lists of at most two e-mails.
Payloads ==
    UNION {[1..n -> CrewEmails \cup {NoCrew}] : n \in 0..2}

\* payload.engineers: lists of at most two {email_id, role} items.
Items == [email_id : EngineerEmails \cup {NoEngineer}, role : Roles]
Batches == UNION {[1..n -> Items] : n \in 0..2}

\* AircraftPartCreateRequest: a part number and a manufacturing date.
PartNumbers == {"P1", "P2"}
PartRequests == [part_number : PartNumbers, manufacturing_date : Dates]

Callers == EngineerEmails \cup {NoEngineer}
JobIds == 1..(MaxJobs + 1)

StatusUpdateRequests ==
    [registration_number : Registrations \cup {NoAircraft},
     capacity : {{}},
     status : Opt(AircraftStatus) \ {{}}]

Init ==
    /\ flights = {}
    /\ crew_schedules = {}
    /\ aircraft = [reg \in Registrations |->
                     [capacity |-> IF reg = "N100" THEN 150 ELSE 200,
                      status |-> "active"]]
    /\ routes = [r \in RouteIds |-> IF r = 1 THEN 200 ELSE 180]
    /\ crew = [e \in CrewEmails |-> [is_pilot |-> (e = "p@x.com")]]
    /\ jobs = <<>>
    /\ engineer_maintenances = {}
    /\ aircraft_parts = {}
    /\ now = [date |-> 1, time |-> 0]
    /\ txn = [p \in Procs |-> Idle]

(***************************************************************************)
(* The flight timetable: flights are created, patched and deleted one call *)
(* at a time while the clock advances.                                     *)
(***************************************************************************)
NextTimetable ==
    \/ \E req \in PlainCreateRequests : create_flight(req)
    \/ \E fn \in FlightNumbers, d \in Dates, upd \in PlainUpdateRequests :
          update_flight(fn, d, upd)
    \/ \E fn \in FlightNumbers, d \in Dates : delete_flight(fn, d)
    \/ Tick

SpecTimetable == Init /\ [][NextTimetable]_vars

(***************************************************************************)
(* Flight creation against a fleet whose status the administrator changes. *)
(***************************************************************************)
NextCreate ==
    \/ \E req \in TodayCreateRequests : create_flight(req)
    \/ \E fn \in FlightNumbers, d \in Dates : delete_flight(fn, d)
    \/ \E req \in StatusUpdateRequests : update_aircraft(req)
    \/ Tick

SpecCreate == Init /\ [][NextCreate]_vars

(***************************************************************************)
(* The crew roster: the timetable together with crew assignment and the    *)
(* administrator's changes of a crew member's role.                        *)
(***************************************************************************)
NextRoster ==
    \/ \E req \in RosterCreateRequests : create_flight(req)
    \/ \E fn \in FlightNumbers, d \in Dates, upd \in RosterUpdateRequests :
          update_flight(fn, d, upd)
    \/ \E fn \in FlightNumbers, d \in Dates : delete_flight(fn, d)
    \/ \E fn \in FlightNumbers, d \in Dates, payload \in Payloads :
          assign_crew_to_flight(fn, d, payload)

SpecRoster == Init /\ [][NextRoster]_vars

(***************************************************************************)
(* Crew assignment while the administrator changes who is a pilot.         *)
(***************************************************************************)
NextCrewRole ==
    \/ \E req \in RosterCreateRequests : create_flight(req)
    \/ \E fn \in FlightNumbers, d \in Dates, payload \in Payloads :
          assign_crew_to_flight(fn, d, payload)
    \/ \E e \in CrewEmails \cup {NoCrew}, is_pilot \in BOOLEAN :
          update_crew_role(e, is_pilot)

SpecCrewRole == Init /\ [][NextCrewRole]_vars

(***************************************************************************)
(* The maintenance workflow: jobs are opened, staffed and closed.          *)
(***************************************************************************)
NextMaintenance ==
    \/ \E e \in Callers, reg \in Registrations \cup {NoAircraft} :
          create_job(e, reg, "opened")
    \/ \E e \in Callers, j \in JobIds, items \in Batches :
          add_engineers_to_job(e, j, items)
    \/ \E e \in Callers, j \in JobIds, remarks \in Opt({"closed"}) :
          close_maintenance_job(e, j, remarks)

SpecMaintenance == Init /\ [][NextMaintenance]_vars

(***************************************************************************)
(* Scheduling and maintenance of one fleet: the scheduler's and the        *)
(* engineers' operations (SpecWorkflow), and those together with the       *)
(* administrator's status overrides (SpecFleet).                           *)
(***************************************************************************)
WorkflowCreateRequests == {req \in PlainCreateRequests : req.date = 1}

WorkflowUpdateRequests ==
    {upd \in PlainUpdateRequests :
        upd.date = {1} /\ upd.scheduled_arrival_time = {}}

NextWorkflow ==
    \/ \E req \in WorkflowCreateRequests : create_flight(req)
    \/ \E fn \in FlightNumbers, upd \in WorkflowUpdateRequests :
          update_flight(fn, 1, upd)
    \/ \E reg \in Registrations : create_job("e1@x.com", reg, "opened")
    \/ \E e \in Callers, j \in JobIds : close_maintenance_job(e, j, {})

SpecWorkflow == Init /\ [][NextWorkflow]_vars

NextFleet ==
    \/ NextWorkflow
    \/ \E req \in StatusUpdateRequests : update_aircraft(req)
    \/ Tick

SpecFleet == Init /\ [][NextFleet]_vars

(***************************************************************************)
(* Two workers serve create_flight requests at the same time.              *)
(***************************************************************************)
NextConcurrentFlights ==
    \/ \E p \in Procs, req \in WorkflowCreateRequests :
          begin_create_flight(p, req)
    \/ \E p \in Procs : commit_create_flight(p)
    \/ \E p \in Procs : respond(p)

SpecConcurrentFlights == Init /\ [][NextConcurrentFlights]_vars

(***************************************************************************)
(* Two workers serve create_job requests at the same time; jobs are closed *)
(* one call at a time.                                                     *)
(***************************************************************************)
NextConcurrentJobs ==
    \/ \E p \in Procs, e \in Callers, reg \in Registrations :
          begin_create_job(p, e, reg)
    \/ \E p \in Procs : commit_job(p)
    \/ \E p \in Procs : commit_leader(p)
    \/ \E p \in Procs : respond(p)
    \/ \E e \in Callers, j \in JobIds : close_maintenance_job(e, j, {})

SpecConcurrentJobs == Init /\ [][NextConcurrentJobs]_vars

(***************************************************************************)
(* Patching a timetable whose flights start on one aircraft and carry      *)
(* crew.                                                                   *)
(***************************************************************************)
\* Requests for flights on aircraft N100 and route 1, between the times 0..2.
SharedCreateRequests ==
    {req \in PlainCreateRequests :
        /\ req.aircraft_registration = "N100"
        /\ req.scheduled_departure_time \in 0..2
        /\ req.scheduled_arrival_time \in 0..2}

\* Patches of the date and the times, and patches of the date, the route and
\* the aircraft.
PatchRequests ==
    RosterUpdateRequests \cup
    {upd \in UpdateRequests :
        /\ upd.scheduled_departure_time = {}
        /\ upd.scheduled_arrival_time = {}}

\* The patches among them that name stored routes and aircraft only.
AppliedPatchRequests ==
    {upd \in PatchRequests :
        upd.route_id = {} /\ upd.aircraft_registration # {NoAircraft}}

NextPatch ==
    \/ \E req \in SharedCreateRequests : create_flight(req)
    \/ \E fn \in FlightNumbers, d \in Dates, upd \in AppliedPatchRequests :
          update_flight(fn, d, upd)
    \/ \E fn \in FlightNumbers, d \in Dates :
          assign_crew_to_flight(fn, d, <<"p@x.com">>)

SpecPatch == Init /\ [][NextPatch]_vars

(***************************************************************************)
(* All the mutating operations on one day: one aircraft's flights, their   *)
(* crew, its maintenance jobs and its parts.                               *)
(***************************************************************************)
\* Batches that name one engineer.
SingleBatches == {items \in Batches : Len(items) = 1}

\* Requests for today's flights of aircraft N100.
DayCreateRequests ==
    {req \in WorkflowCreateRequests : req.aircraft_registration = "N100"}

\* Patches of today's departure time.
DayUpdateRequests ==
    {upd \in WorkflowUpdateRequests : upd.aircraft_registration = {}}

NextOperations ==
    \/ \E req \in DayCreateRequests : create_flight(req)
    \/ \E fn \in FlightNumbers, upd \in DayUpdateRequests :
          update_flight(fn, 1, upd)
    \/ \E fn \in FlightNumbers : delete_flight(fn, 1)
    \/ assign_crew_to_flight("AA100", 1, <<"p@x.com">>)
    \/ create_job("e1@x.com", "N100", "opened")
    \/ \E j \in JobIds, items \in SingleBatches :
          add_engineers_to_job("e1@x.com", j, items)
    \/ \E j \in JobIds : close_maintenance_job("e1@x.com", j, {})
    \/ \E payload \in PartRequests : add_part_to_aircraft("N100", payload)

SpecOperations == Init /\ [][NextOperations]_vars

(***************************************************************************)
(* The hangar: jobs are opened and closed while the administrator changes  *)
(* the status of the aircraft.                                             *)
(***************************************************************************)
NextHangar ==
    \/ \E e \in Callers, reg \in Registrations \cup {NoAircraft} :
          create_job(e, reg, "opened")
    \/ \E e \in Callers, j \in JobIds : close_maintenance_job(e, j, {})
    \/ \E req \in StatusUpdateRequests : update_aircraft(req)

SpecHangar == Init /\ [][NextHangar]_vars

(***************************************************************************)
(* Two workers serve assign_crew_to_flight requests at the same time, on   *)
(* a timetable of date 1 in which each flight number flies its own         *)
(* aircraft.                                                               *)
(***************************************************************************)
CrewPayloads == {<<"p@x.com">>, <<"p@x.com", "c@x.com">>}

NextConcurrentCrew ==
    \/ \E req \in RosterCreateRequests : req.date = 1 /\ create_flight(req)
    \/ \E p \in Procs, fn \in FlightNumbers, payload \in CrewPayloads :
          begin_assign_crew(p, fn, 1, payload)
    \/ \E p \in Procs : commit_assign_crew(p)
    \/ \E p \in Procs : respond(p)

SpecConcurrentCrew == Init /\ [][NextConcurrentCrew]_vars

(***************************************************************************)
(* Two workers serve add_engineers_to_job requests at the same time.       *)
(***************************************************************************)
TeamItems == [email_id : Engineers, role : Roles]
TeamBatches == UNION {[1..n -> TeamItems] : n \in 1..2}

NextConcurrentEngineers ==
    \/ create_job("e1@x.com", "N100", "opened")
    \/ \E p \in Procs, e \in Engineers, j \in JobIds, items \in TeamBatches :
          begin_add_engineers(p, e, j, items)
    \/ \E p \in Procs : commit_add_engineers(p)
    \/ \E p \in Procs : respond(p)

SpecConcurrentEngineers == Init /\ [][NextConcurrentEngineers]_vars

(***************************************************************************)
(* One aircraft's timetable over four instants of the day, so that stored  *)
(* and requested intervals can touch, contain and partly overlap one       *)
(* another.                                                                *)
(***************************************************************************)
Slots == 0..(MaxTime + 1)

IntervalCreateRequests ==
    {Flight(fn, d, 1, dep, arr, "N100") :
        fn \in FlightNumbers, d \in Dates, dep \in Slots, arr \in Slots}

NextIntervals ==
    \/ \E req \in IntervalCreateRequests : create_flight(req)
    \/ \E fn \in FlightNumbers, d \in Dates : delete_flight(fn, d)

SpecIntervals == Init /\ [][NextIntervals]_vars

(***************************************************************************)
(* The duration of a flight as the crew's read handlers compute it: worker *)
(* 1 starts with the date and the times of a row, in minutes of the day.   *)
(***************************************************************************)
SampleArrivals == {0, MinutesPerDay \div 2, MinutesPerDay - 1}

DurationRequests ==
    [date : Dates,
     scheduled_departure_time : MinutesOfDay,
     scheduled_arrival_time : SampleArrivals,
     duration_minutes : {{}}]

InitDuration ==
    /\ flights = {}
    /\ crew_schedules = {}
    /\ aircraft = [reg \in Registrations |->
                     [capacity |-> IF reg = "N100" THEN 150 ELSE 200,
                      status |-> "active"]]
    /\ routes = [r \in RouteIds |-> IF r = 1 THEN 200 ELSE 180]
    /\ crew = [e \in CrewEmails |-> [is_pilot |-> (e = "p@x.com")]]
    /\ jobs = <<>>
    /\ engineer_maintenances = {}
    /\ aircraft_parts = {}
    /\ now = [date |-> 1, time |-> 0]
    /\ \E req \in DurationRequests :
          txn = [p \in Procs |->
                   IF p = 1 THEN [pc |-> "duration_requested", req |-> {req}]
                   ELSE Idle]

NextDuration == \E p \in Procs : return_duration(p)

SpecDuration == InitDuration /\ [][NextDuration]_vars

(***************************************************************************)
(* The roster while the clock advances, as the crew's dashboard reads it.  *)
(***************************************************************************)
NextDashboard ==
    \/ \E req \in RosterCreateRequests : create_flight(req)
    \/ \E fn \in FlightNumbers, d \in Dates, payload \in CrewPayloads :
          assign_crew_to_flight(fn, d, payload)
    \/ Tick

SpecDashboard == Init /\ [][NextDashboard]_vars

(***************************************************************************)
(* The timetable next to the administrator's changes of capacities:        *)
(* update_aircraft with a capacity and update_route with an approved       *)
(* capacity.                                                               *)
(***************************************************************************)
Capacities == {100, 150, 250}

CapacityUpdateRequests ==
    [registration_number : Registrations \cup {NoAircraft},
     capacity : Opt(Capacities) \ {{}},
     status : {{}}]

RouteUpdateRequests ==
    [route_id : RouteIds \cup {NoRoute},
     approved_capacity : Opt(Capacities) \ {{}}]

\* Patches of the route and the aircraft of a flight of date 1.
CapacityPatchRequests ==
    {upd \in UpdateRequests :
        /\ upd.date = {1}
        /\ upd.scheduled_departure_time = {}
        /\ upd.scheduled_arrival_time = {}
        /\ upd.route_id # {NoRoute}
        /\ upd.aircraft_registration # {NoAircraft}}

NextCapacity ==
    \/ \E req \in CreateRequests :
          /\ req.date = 1
          /\ req.route_id \in RouteIds
          /\ req.aircraft_registration \in Registrations
          /\ req.scheduled_arrival_time = req.scheduled_departure_time + 1
          /\ create_flight(req)
    \/ \E fn \in FlightNumbers, upd \in CapacityPatchRequests :
          update_flight(fn, 1, upd)
    \/ \E req \in CapacityUpdateRequests : update_aircraft(req)
    \/ \E req \in RouteUpdateRequests : update_route(req)

SpecCapacity == Init /\ [][NextCapacity]_vars

\* Two flights share an instant of their half-open [departure, arrival).
SharesInstant(f, g) ==
    \E t \in Times :
        /\ f.scheduled_departure_time <= t /\ t < f.scheduled_arrival_time
        /\ g.scheduled_departure_time <= t /\ t < g.scheduled_arrival_time

(***************************************************************************)
(* C1: no two stored flights of one aircraft on one date have overlapping  *)
(* half-open [departure, arrival) intervals, after any sequence of         *)
(* create_flight, update_flight and delete_flight calls.                   *)
(***************************************************************************)
C1_NoAircraftOverlap ==
    \A f \in flights, g \in flights :
        (/\ f # g
         /\ f.aircraft_registration = g.aircraft_registration
         /\ f.date = g.date)
        => ~ SharesInstant(f, g)

\* Back-to-back flights of one aircraft coexist, one of them moved there by
\* update_flight (it is flight AA100, and it does not start at 0).
C1_Witness ==
    \E f \in flights, g \in flights :
        /\ f # g
        /\ f.aircraft_registration = g.aircraft_registration
        /\ f.date = g.date
        /\ f.scheduled_arrival_time = g.scheduled_departure_time

(***************************************************************************)
(* C2: no crew member holds assignments to two different flight instances  *)
(* of one date whose [departure, arrival) intervals overlap, after any     *)
(* sequence of assign_crew_to_flight, update_flight and delete_flight.     *)
(***************************************************************************)
C2_NoCrewOverlap ==
    \A a \in crew_schedules, b \in crew_schedules :
        (/\ a.email_id = b.email_id
         /\ a.date = b.date
         /\ a.flight_number # b.flight_number)
        => \A f \in FlightByPk(a.flight_number, a.date),
              g \in FlightByPk(b.flight_number, b.date) :
                ~ SharesInstant(f, g)

\* The eight rejection rules of create_flight, read on the stored rows.
C10_Rejected(req) ==
    LET reg == req.aircraft_registration
        r == req.route_id
    IN  \/ \E f \in flights :
              f.flight_number = req.flight_number /\ f.date = req.date
        \/ r \notin DOMAIN routes
        \/ reg \notin DOMAIN aircraft
        \/ reg \in DOMAIN aircraft /\ aircraft[reg].status # "active"
        \/ /\ reg \in DOMAIN aircraft /\ r \in DOMAIN routes
           /\ aircraft[reg].capacity > routes[r]
        \/ req.scheduled_arrival_time <= req.scheduled_departure_time
        \/ req.date < now.date
        \/ req.date = now.date /\ req.scheduled_departure_time < now.time
        \/ \E f \in flights :
              /\ f.aircraft_registration = reg
              /\ f.date = req.date
              /\ SharesInstant(f, req)

(***************************************************************************)
(* C10: create_flight stores the flight if and only if none of the eight   *)
(* rejection rules holds; when one holds the set of flights is unchanged.  *)
(***************************************************************************)
C10_CreateIffNoRule ==
    \A req \in CreateRequests :
        /\ (create_flight_error(req) = "ok") <=> ~ C10_Rejected(req)
        /\ create_flight_rows(req) = IF C10_Rejected(req) THEN flights
                                     ELSE flights \cup {req}

\* A flight is stored, and requests exist that fail on the overlap, on the
\* aircraft's status and on the clock alone.
C10_Witness ==
    /\ flights # {}
    /\ \E req \in CreateRequests : create_flight_error(req) = "AircraftDoubleBooked"
    /\ \E req \in CreateRequests : create_flight_error(req) = "AircraftNotActive"
    /\ \E req \in CreateRequests : create_flight_error(req) = "DepartureInPast"
    /\ \E req \in CreateRequests : create_flight_error(req) = "ok"

(***************************************************************************)
(* C8: every flight with a non-empty crew set has at least one assigned    *)
(* member who is a pilot, whatever assign_crew_to_flight and               *)
(* update_crew_role calls were made.                                       *)
(***************************************************************************)
C8_PilotOnEveryCrewedFlight ==
    \A f \in flights :
        SchedulesOf(f.flight_number, f.date) # {}
        => \E cs \in SchedulesOf(f.flight_number, f.date) :
              crew[cs.email_id].is_pilot

\* The open jobs of an aircraft.
OpenJobsOn(reg) ==
    {j \in DOMAIN jobs :
        jobs[j].registration_number = reg /\ jobs[j].status \in OpenStatuses}

(***************************************************************************)
(* C3: no flight whose departure has not yet elapsed references an         *)
(* aircraft whose status is maintenance, whatever the schedulers, the      *)
(* engineers and the administrators did.                                   *)
(***************************************************************************)
C3_NoFlightOnGroundedAircraft ==
    \A f \in flights :
        Combine(f.date, f.scheduled_departure_time) > NowDt
        => aircraft[f.aircraft_registration].status # "maintenance"

(***************************************************************************)
(* C4: two create_flight requests served at the same time, for one         *)
(* aircraft and one date with overlapping intervals, are never both        *)
(* committed.                                                              *)
(***************************************************************************)
C4_OverlappingCreatesNotBothCommitted ==
    \A p \in Procs, q \in Procs :
        (/\ p # q
         /\ txn[p].pc = "committed"
         /\ txn[q].pc = "committed")
        => LET f == Val(txn[p].req)
               g == Val(txn[q].req)
           IN  (/\ f.aircraft_registration = g.aircraft_registration
                /\ f.date = g.date
                /\ SharesInstant(f, g))
               => ~ ({f, g} \subseteq flights)

(***************************************************************************)
(* C5: of two create_job requests served at the same time for one          *)
(* aircraft at most one succeeds: their two jobs are never both open.      *)
(***************************************************************************)
C5_ConcurrentOpenJobsNotBothOpen ==
    \A p \in Procs, q \in Procs :
        (/\ p # q
         /\ txn[p].pc \in {"job_inserted", "job_committed"}
         /\ txn[q].pc \in {"job_inserted", "job_committed"})
        => LET a == Val(txn[p].req)
               b == Val(txn[q].req)
           IN  a.reg = b.reg
               => ~ ({a.job_id, b.job_id} \subseteq OpenJobsOn(a.reg))

(***************************************************************************)
(* C6: with create_job and close_maintenance_job called one at a time, an  *)
(* aircraft has at most one job whose status is pending or in_progress.    *)
(***************************************************************************)
C6_AtMostOneOpenJob ==
    \A reg \in Registrations : Cardinality(OpenJobsOn(reg)) <= 1

\* A second job was opened on an aircraft after its first one was closed.
C6_Witness ==
    \E i \in DOMAIN jobs, j \in DOMAIN jobs :
        /\ jobs[i].registration_number = jobs[j].registration_number
        /\ jobs[i].status = "completed"
        /\ jobs[j].status = "pending"

\* The links of a job.
LinksOf(job_id) == {l \in engineer_maintenances : l.job_id = job_id}

(***************************************************************************)
(* C7: every job with at least one assigned engineer has exactly one       *)
(* assignment whose role is "Leader".                                      *)
(***************************************************************************)
C7_ExactlyOneLeader ==
    \A j \in DOMAIN jobs :
        LinksOf(j) # {}
        => Cardinality({l \in LinksOf(j) : l.role = LEADER_ROLE}) = 1

\* The leadership of a job was handed over by add_engineers_to_job.
C7_Witness ==
    \E j \in DOMAIN jobs :
        /\ Cardinality(LinksOf(j)) = 2
        /\ \E l \in LinksOf(j) :
              l.role = LEADER_ROLE /\ l.engineer_email_id # "e1@x.com"

\* The errors create_flight and update_flight raise up to the status check.
UpToStatusCheck == {"NotFound", "DuplicateKey", "RouteNotFound", "AircraftNotActive"}

\* The rejection rules of create_flight other than the aircraft's status.
C9_OtherRuleHolds(req) ==
    LET reg == req.aircraft_registration
        r == req.route_id
    IN  \/ \E f \in flights :
              f.flight_number = req.flight_number /\ f.date = req.date
        \/ r \notin DOMAIN routes
        \/ reg \notin DOMAIN aircraft
        \/ /\ reg \in DOMAIN aircraft /\ r \in DOMAIN routes
           /\ aircraft[reg].capacity > routes[r]
        \/ req.scheduled_arrival_time <= req.scheduled_departure_time
        \/ Combine(req.date, req.scheduled_departure_time) < NowDt
        \/ \E f \in flights :
              /\ f.aircraft_registration = reg
              /\ f.date = req.date
              /\ SharesInstant(f, req)

\* While an aircraft has an open job its status is maintenance and every
\* create_flight and update_flight naming it is rejected.
C9_GroundedWhileOpen ==
    \A reg \in Registrations :
        OpenJobsOn(reg) # {}
        => /\ aircraft[reg].status = "maintenance"
           /\ \A req \in CreateRequests :
                 req.aircraft_registration = reg
                 => create_flight_error(req) \in UpToStatusCheck
           /\ \A f \in flights, upd \in UpdateRequests :
                 Effective(f, upd).aircraft_registration = reg
                 => update_flight_error(f.flight_number, f.date, upd)
                       \in UpToStatusCheck

\* The step in which the leader closes a job puts the aircraft back to active
\* and a create_flight that breaks no other rule is then accepted.
C9_CloseReleases ==
    \A j \in DOMAIN jobs :
        (jobs[j].status \in OpenStatuses /\ jobs'[j].status = "completed")
        => LET reg == jobs[j].registration_number
           IN  /\ aircraft'[reg].status = "active"
               /\ \A req \in CreateRequests :
                     (req.aircraft_registration = reg /\ ~ C9_OtherRuleHolds(req)')
                     => (create_flight_error(req) = "ok")'

RejectedAgainst(req, stored) ==
    LET reg == req.aircraft_registration
        r == req.route_id
    IN  \/ \E f \in stored :
              f.flight_number = req.flight_number /\ f.date = req.date
        \/ r \notin DOMAIN routes
        \/ reg \notin DOMAIN aircraft
        \/ reg \in DOMAIN aircraft /\ aircraft[reg].status # "active"
        \/ /\ reg \in DOMAIN aircraft /\ r \in DOMAIN routes
           /\ aircraft[reg].capacity > routes[r]
        \/ req.scheduled_arrival_time <= req.scheduled_departure_time
        \/ Combine(req.date, req.scheduled_departure_time) < NowDt
        \/ \E f \in stored :
              /\ f.aircraft_registration = reg
              /\ f.date = req.date
              /\ SharesInstant(f, req)

(***************************************************************************)
(* C11: update_flight applies a patch only if the effective values pass    *)
(* every create_flight check, read against all stored flights but the      *)
(* flight's own current (flight_number, date); a rejected patch leaves the *)
(* flight and its crew assignments unchanged.                              *)
(***************************************************************************)
C11_UpdateIffEffectivePasses ==
    \A f \in flights, upd \in PatchRequests :
        LET rejected == RejectedAgainst(Effective(f, upd), flights \ {f})
        IN  /\ (update_flight_error(f.flight_number, f.date, upd) = "ok")
                   <=> ~ rejected
            /\ rejected =>
                 update_flight_rows(f.flight_number, f.date, upd)
                    = [flights |-> flights, crew_schedules |-> crew_schedules]

\* Two flights are stored, the first with crew; one patch of it is refused
\* only because of the second flight, while another patch of it is applicable.
C11_Witness ==
    \E f \in flights, g \in flights :
        /\ f # g
        /\ \E upd \in PatchRequests :
              update_flight_error(f.flight_number, f.date, upd)
                 = "AircraftDoubleBooked"
        /\ SchedulesOf(f.flight_number, f.date) # {}
        /\ \E upd \in PatchRequests :
              /\ update_flight_error(f.flight_number, f.date, upd) = "ok"
              /\ Effective(f, upd) # f

\* The crew members assigned to (fn, d) among the rows.
CrewOf(rows, fn, d) ==
    {cs.email_id : cs \in {r \in rows : r.flight_number = fn /\ r.date = d}}

(***************************************************************************)
(* C12: an update_flight that changes the date moves the flight and all    *)
(* its crew assignments together: afterwards the flight exists only under  *)
(* the new date with the same crew members and none is left under the old  *)
(* date; a rejected one leaves flight and assignments under the old date.  *)
(* No crew assignment ever names a (flight_number, date) that is not       *)
(* stored.                                                                 *)
(***************************************************************************)
C12_AtomicRekey ==
    /\ \A cs \in crew_schedules : FlightByPk(cs.flight_number, cs.date) # {}
    /\ \A f \in flights, upd \in RosterUpdateRequests :
          LET fn == f.flight_number
              new_date == Val(upd.date)
              rows == update_flight_rows(fn, f.date, upd)
          IN  new_date # f.date =>
                IF update_flight_error(fn, f.date, upd) = "ok"
                THEN /\ {g \in rows.flights : g.flight_number = fn}
                          \ (flights \ {f}) = {Effective(f, upd)}
                     /\ ~ \E g \in rows.flights :
                            g.flight_number = fn /\ g.date = f.date
                     /\ CrewOf(rows.crew_schedules, fn, new_date)
                          = CrewOf(crew_schedules, fn, f.date)
                     /\ CrewOf(rows.crew_schedules, fn, f.date) = {}
                     /\ \A cs \in rows.crew_schedules :
                          \E g \in rows.flights :
                             /\ g.flight_number = cs.flight_number
                             /\ g.date = cs.date
                ELSE rows = [flights |-> flights,
                             crew_schedules |-> crew_schedules]

\* A flight with crew was moved to another date and its departure changed in
\* the same call, and it can be moved again.
C12_Witness ==
    \E f \in flights :
        /\ \E cs \in SchedulesOf(f.flight_number, f.date) :
              cs.scheduled_departure_time # f.scheduled_departure_time
        /\ \E upd \in RosterUpdateRequests :
              /\ Val(upd.date) # f.date
              /\ update_flight_error(f.flight_number, f.date, upd) = "ok"

(***************************************************************************)
(* C13: after every successful update_flight, every crew assignment of the *)
(* flight carries the flight's current scheduled departure time.           *)
(***************************************************************************)
C13_DepartureTimeInSync ==
    \A cs \in crew_schedules :
        \A f \in FlightByPk(cs.flight_number, cs.date) :
            cs.scheduled_departure_time = f.scheduled_departure_time

\* The patch that changes nothing: the date given is the flight's own.
NoChange(flight) ==
    [route_id |-> {}, date |-> {flight.date}, scheduled_departure_time |-> {},
     scheduled_arrival_time |-> {}, aircraft_registration |-> {}]

\* update_flight with the patch that changes nothing is accepted and leaves
\* the flight as it is stored.
RoundTrip(flight) ==
    /\ update_flight_error(flight.flight_number, flight.date, NoChange(flight))
          = "ok"
    /\ Effective(flight, NoChange(flight)) = flight
    /\ update_flight_rows(flight.flight_number, flight.date, NoChange(flight))
          = [flights |-> flights, crew_schedules |-> crew_schedules]

(***************************************************************************)
(* C14: right after create_flight has stored a flight, update_flight on it *)
(* with no field changed succeeds and returns and leaves stored exactly    *)
(* the values given to create_flight.                                      *)
(***************************************************************************)
C14_CreateThenEmptyPatch ==
    [][Cardinality(flights') > Cardinality(flights)
         => \A req \in flights' \ flights : RoundTrip(req)']_vars

\* A flight has been created next to another one of the same aircraft and
\* date, and the patch that changes nothing is accepted for both.
C14_Witness ==
    \E f \in flights, g \in flights :
        /\ f # g
        /\ f.aircraft_registration = g.aircraft_registration
        /\ f.date = g.date
        /\ RoundTrip(f)
        /\ RoundTrip(g)

(***************************************************************************)
(* C15: delete_flight on a stored flight, with or without crew, succeeds   *)
(* and removes the flight together with its crew assignments;              *)
(* delete_flight on an absent (flight_number, date) fails with not-found   *)
(* and changes nothing.                                                    *)
(***************************************************************************)
C15_DeleteRemovesFlightAndCrew ==
    \A fn \in FlightNumbers, d \in Dates :
        IF FlightByPk(fn, d) = {}
        THEN /\ delete_flight_error(fn, d) = "NotFound"
             /\ delete_flight_rows(fn, d) = flights
        ELSE /\ delete_flight_error(fn, d) = "ok"
             /\ delete_flight_rows(fn, d) = flights \ FlightByPk(fn, d)

\* The rows that belong to other flights than (fn, d).
RowsOfOthers(rows, fn, d) ==
    {r \in rows : ~ (r.flight_number = fn /\ r.date = d)}

(***************************************************************************)
(* C16: after a successful assign_crew_to_flight the crew members of the   *)
(* flight are exactly the distinct e-mails of the call, one assignment     *)
(* each, and the assignments of the other flights are unchanged.           *)
(***************************************************************************)
C16_AssignReplacesCrew ==
    \A fn \in FlightNumbers, d \in Dates, payload \in Payloads :
        assign_crew_error(fn, d, payload) = "ok"
        => LET rows == assign_crew_rows(fn, d, payload)
               mine == rows \ RowsOfOthers(rows, fn, d)
           IN  /\ CrewOf(rows, fn, d) = Emails(payload)
               /\ Cardinality(mine) = Cardinality(Emails(payload))
               /\ RowsOfOthers(rows, fn, d)
                     = RowsOfOthers(crew_schedules, fn, d)

\* A flight carries two crew members and a call that keeps only one of them
\* is accepted, while another flight carries crew as well.
C16_Witness ==
    \E f \in flights, g \in flights :
        /\ f # g
        /\ Cardinality(CrewOf(crew_schedules, f.flight_number, f.date)) = 2
        /\ CrewOf(crew_schedules, g.flight_number, g.date) # {}
        /\ assign_crew_error(f.flight_number, f.date, <<"p@x.com">>) = "ok"

\* Crew member c holds an assignment to another flight instance of the date
\* of flight f that shares an instant with f.
HoldsOverlapping(c, f) ==
    \E cs \in crew_schedules :
        /\ cs.email_id = c
        /\ cs.date = f.date
        /\ cs.flight_number # f.flight_number
        /\ \E g \in FlightByPk(cs.flight_number, cs.date) : SharesInstant(f, g)

\* The errors assign_crew_to_flight raises before it looks for overlaps.
BeforeOverlapScan == {"EmptyRoster", "PastFlight", "UnknownCrew", "NoPilotAssigned"}

(***************************************************************************)
(* C17: assign_crew_to_flight is rejected for crew double-booking exactly  *)
(* when a supplied crew member holds an assignment to a different flight   *)
(* instance of the same date whose [departure, arrival) overlaps the       *)
(* target's; the flight itself and a flight that ends when the target      *)
(* starts are no conflict.                                                 *)
(***************************************************************************)
C17_DoubleBookedIffOverlap ==
    \A f \in flights, payload \in Payloads :
        LET err == assign_crew_error(f.flight_number, f.date, payload)
        IN  IF \E c \in Emails(payload) : HoldsOverlapping(c, f)
            THEN err \in BeforeOverlapScan \cup {"CrewDoubleBooked"}
            ELSE err # "CrewDoubleBooked"

\* The pilot is on a flight and on the one that starts when it ends, on a
\* third window he would be double-booked, and he can be assigned again to
\* the flight he is on.
C17_Witness ==
    \E f \in flights, g \in flights :
        /\ f.date = g.date
        /\ f.scheduled_arrival_time = g.scheduled_departure_time
        /\ "p@x.com" \in CrewOf(crew_schedules, f.flight_number, f.date)
        /\ "p@x.com" \in CrewOf(crew_schedules, g.flight_number, g.date)
        /\ assign_crew_error(g.flight_number, g.date, <<"p@x.com">>) = "ok"

\* The tables a flight patch may write, as they are stored.
StoredTimetable == [flights |-> flights, crew_schedules |-> crew_schedules]

Opened(e, reg) ==
    LET job_id == Len(jobs) + 1
    IN  /\ jobs' = Append(jobs, jobs'[job_id])
        /\ jobs'[job_id].status = "pending"
        /\ jobs'[job_id].registration_number = reg
        /\ aircraft' = [aircraft EXCEPT ![reg].status = "maintenance"]
        /\ engineer_maintenances' = engineer_maintenances \cup
              {[job_id |-> job_id, engineer_email_id |-> e, role |-> "Leader"]}
        /\ \A l \in engineer_maintenances : l.job_id # job_id

(***************************************************************************)
(* C19: create_job fails and changes nothing when the aircraft does not    *)
(* exist, is retired or has a job in pending or in_progress; otherwise it  *)
(* stores a new pending job for the aircraft, leaves the aircraft in       *)
(* maintenance and makes the requesting engineer the job's only engineer,  *)
(* as its leader.                                                          *)
(***************************************************************************)
C19_OpenJobContract ==
    \A e \in Engineers, reg \in Registrations \cup {NoAircraft} :
        IF \/ reg \notin DOMAIN aircraft
           \/ aircraft[reg].status = "retired"
           \/ OpenJobsOn(reg) # {}
        THEN /\ create_job_error(e, reg) # "ok"
             /\ ~ ENABLED <<create_job(e, reg, "opened")>>_vars
        ELSE /\ create_job_error(e, reg) = "ok"
             /\ Len(jobs) < MaxJobs
                  => /\ ENABLED (create_job(e, reg, "opened") /\ Opened(e, reg))
                     /\ ~ ENABLED (create_job(e, reg, "opened")
                                     /\ ~ Opened(e, reg))

\* One aircraft is retired, the other one is in maintenance with a pending
\* job opened after an earlier one was closed.
C19_Witness ==
    /\ \E reg \in Registrations : aircraft[reg].status = "retired"
    /\ \E i \in DOMAIN jobs, j \in DOMAIN jobs :
          /\ jobs[i].registration_number = jobs[j].registration_number
          /\ jobs[i].status = "completed"
          /\ jobs[j].status = "pending"
          /\ aircraft[jobs[j].registration_number].status = "maintenance"
          /\ Cardinality(LinksOf(j)) = 1

\* The leaders of job j among the rows.
LeadersOf(rows, j) == {l \in rows : l.job_id = j /\ l.role = "Leader"}

(***************************************************************************)
(* C20: add_engineers_to_job is all-or-nothing: when the job would have no *)
(* leader or more than one leader after the upserts of the batch, the      *)
(* batch is rejected and the job's engineers and their roles are as        *)
(* before the call.                                                        *)
(***************************************************************************)
C20_BatchAllOrNothing ==
    \A e \in Engineers, j \in DOMAIN jobs, items \in Batches :
        LET r == upsert(engineer_maintenances, {}, j, items, 1)
        IN  (/\ jobs[j].status \in OpenStatuses
             /\ \E l \in LeadersOf(engineer_maintenances, j) :
                    l.engineer_email_id = e
             /\ items # <<>>
             /\ r.error = "ok"
             /\ Cardinality(LeadersOf(r.links, j)) # 1)
            => /\ add_engineers_error(e, j, items) \in {"NoLeader", "ManyLeaders"}
               /\ add_engineers_rows(e, j, items) = engineer_maintenances

\* A job has a leader and a member, and the batches that make both of them
\* leaders and that make the leader a member are refused.
C20_Witness ==
    \E j \in DOMAIN jobs :
        /\ Cardinality(LinksOf(j)) = 2
        /\ is_leader(engineer_maintenances, j, "e1@x.com")
        /\ add_engineers_error("e1@x.com", j,
              <<[email_id |-> "e1@x.com", role |-> "Leader"],
                [email_id |-> "e2@x.com", role |-> "Leader"]>>) = "ManyLeaders"
        /\ add_engineers_error("e1@x.com", j,
              <<[email_id |-> "e1@x.com", role |-> "Member"]>>) = "NoLeader"

\* Engineer e holds the leader role on job j.
HoldsLeaderRole(e, j) ==
    \E l \in LeadersOf(engineer_maintenances, j) : l.engineer_email_id = e

(***************************************************************************)
(* C21: add_engineers_to_job and close_maintenance_job succeed only for    *)
(* the engineer who holds the leader role on the job; on an open job every *)
(* other caller, assigned or not, gets the not-leader error and nothing    *)
(* changes, and the holder of the role is accepted: after the role has     *)
(* moved, the former leader is rejected and the new one accepted.          *)
(***************************************************************************)
C21_OnlyTheLeader ==
    \A j \in DOMAIN jobs, e \in Callers :
        /\ close_job_error(e, j) = "ok" => HoldsLeaderRole(e, j)
        /\ \A items \in Batches :
              add_engineers_error(e, j, items) = "ok" => HoldsLeaderRole(e, j)
        /\ jobs[j].status \in OpenStatuses =>
              IF HoldsLeaderRole(e, j)
              THEN /\ close_job_error(e, j) = "ok"
                   /\ \A items \in Batches :
                         add_engineers_error(e, j, items) # "NotLeader"
              ELSE /\ close_job_error(e, j) = "NotLeader"
                   /\ ~ ENABLED <<close_maintenance_job(e, j, {"closed"})>>_vars
                   /\ \A items \in Batches :
                         /\ add_engineers_error(e, j, items) = "NotLeader"
                         /\ add_engineers_rows(e, j, items)
                               = engineer_maintenances

\* On an open job the leader role has moved from the engineer who opened it
\* to the other one, who can close it.
C21_Witness ==
    \E j \in DOMAIN jobs :
        /\ jobs[j].status \in OpenStatuses
        /\ HoldsLeaderRole("e2@x.com", j)
        /\ LinkOf(engineer_maintenances, j, "e1@x.com") # {}
        /\ close_job_error("e1@x.com", j) = "NotLeader"
        /\ close_job_error("e2@x.com", j) = "ok"

\* What a successful close_maintenance_job on job j has written in the step
\* to the primed state.
Closed(j) ==
    LET reg == jobs[j].registration_number
    IN  /\ DOMAIN jobs' = DOMAIN jobs
        /\ jobs'[j].status = "completed"
        /\ jobs'[j].checkout_date = {now.time}
        /\ jobs'[j].registration_number = reg
        /\ \A i \in DOMAIN jobs \ {j} : jobs'[i] = jobs[i]
        /\ aircraft' = IF aircraft[reg].status = "maintenance"
                       THEN [aircraft EXCEPT ![reg].status = "active"]
                       ELSE aircraft

C23_CompletedJobStaysClosed ==
    \A j \in DOMAIN jobs :
        jobs[j].status = "completed"
        => \A e \in Callers, remarks \in Opt({"closed"}) :
              /\ close_job_error(e, j) = "AlreadyCompleted"
              /\ ~ ENABLED <<close_maintenance_job(e, j, remarks)>>_vars

\* A job is completed and its aircraft is in maintenance again, so a second
\* close by the job's leader would be seen.
C23_Witness ==
    \E j \in DOMAIN jobs :
        /\ jobs[j].status = "completed"
        /\ HoldsLeaderRole("e1@x.com", j)
        /\ aircraft[jobs[j].registration_number].status = "maintenance"

\* The status changes that must be refused: maintenance asked for a retired
\* aircraft, or active asked for an aircraft with a job still open.
InvalidTransition(req) ==
    /\ req.registration_number \in DOMAIN aircraft
    /\ \/ /\ req.status = {"maintenance"}
          /\ aircraft[req.registration_number].status = "retired"
       \/ /\ req.status = {"active"}
          /\ OpenJobsOn(req.registration_number) # {}

(***************************************************************************)
(* C24: a status change that asks for maintenance on a retired aircraft,   *)
(* or for active on an aircraft with a pending or in_progress job, is      *)
(* rejected on every path, update_aircraft included: the request changes   *)
(* nothing.                                                                *)
(***************************************************************************)
C24_InvalidTransitionRejected ==
    \A req \in StatusUpdateRequests :
        InvalidTransition(req) => ~ ENABLED <<update_aircraft(req)>>_vars

(***************************************************************************)
(* C25: in every state reached by create_flight, update_flight,            *)
(* update_aircraft and update_route, the aircraft of every stored flight   *)
(* has a capacity no larger than the approved capacity of the flight's     *)
(* route.                                                                  *)
(***************************************************************************)
C25_CapacityWithinApproved ==
    \A f \in flights :
        aircraft[f.aircraft_registration].capacity <= routes[f.route_id]

(***************************************************************************)
(* C26: a crew member sees only their own assignments: get_my_flights      *)
(* returns only flights (number and date) the member is assigned to,       *)
(* get_my_flight_detail returns such a flight with the crew of that very   *)
(* flight, and is not-found for a flight number the member has no          *)
(* assignment on.                                                          *)
(***************************************************************************)
C26_OnlyOwnAssignments ==
    \A e \in CrewEmails :
        /\ \A all \in BOOLEAN : \A f \in get_my_flights(e, ~ all) :
               e \in CrewOf(crew_schedules, f.flight_number, f.date)
        /\ \A fn \in FlightNumbers : \A r \in get_my_flight_detail(e, fn) :
               IF \A d \in Dates : e \notin CrewOf(crew_schedules, fn, d)
               THEN r.error = "NotFound"
               ELSE /\ r.error = "ok"
                    /\ e \in CrewOf(crew_schedules, fn, r.flight.date)
                    /\ r.crew = CrewOf(crew_schedules, fn, r.flight.date)

(***************************************************************************)
(* C27: two assign_crew_to_flight requests served at the same time for two *)
(* different flights of one date with overlapping intervals, both naming   *)
(* the same crew member, do not both commit: the member is never stored on *)
(* both flights.                                                           *)
(***************************************************************************)
C27_ConcurrentAssignsNotBothCommitted ==
    \A p \in Procs, q \in Procs :
        (p # q /\ txn[p].pc = "committed" /\ txn[q].pc = "committed")
        => LET f == Val(txn[p].req).flight
               g == Val(txn[q].req).flight
           IN  ~ /\ f.flight_number # g.flight_number
                 /\ f.date = g.date
                 /\ SharesInstant(f, g)
                 /\ \E c \in CrewEmails :
                       /\ c \in CrewOf(crew_schedules, f.flight_number, f.date)
                       /\ c \in CrewOf(crew_schedules, g.flight_number, g.date)

(***************************************************************************)
(* C28: when two add_engineers_to_job requests on one job, both sent by    *)
(* its leader, are served at the same time and both have committed, the    *)
(* stored rows of the job hold exactly one leader.                         *)
(***************************************************************************)
C28_ConcurrentBatchesKeepOneLeader ==
    \A p \in Procs, q \in Procs :
        /\ p # q
        /\ txn[p].pc = "committed" /\ txn[q].pc = "committed"
        /\ Val(txn[p].req).job_id = Val(txn[q].req).job_id
        => Cardinality(LeadersOf(engineer_maintenances,
                                 Val(txn[p].req).job_id)) = 1

(***************************************************************************)
(* C29: create_job is one atomic unit: no state that another request can   *)
(* see holds a stored job whose aircraft is in maintenance while the job   *)
(* has no leader row.                                                      *)
(***************************************************************************)
C29_OpenJobAtomic ==
    \A j \in DOMAIN jobs :
        aircraft[jobs[j].registration_number].status = "maintenance"
        => LeadersOf(engineer_maintenances, j) # {}

\* The status changes a job may make.
JobTransitions ==
    {<<"pending", "in_progress">>, <<"in_progress", "completed">>,
     <<"pending", "cancelled">>, <<"in_progress", "cancelled">>}

(***************************************************************************)
(* C30: every step that changes the status of a job takes it from pending  *)
(* to in_progress, from in_progress to completed, or from pending or       *)
(* in_progress to cancelled; a completed or cancelled job keeps its status *)
(* and its engineer assignments.                                           *)
(***************************************************************************)
C30_JobLifecycle ==
    [][\A j \in DOMAIN jobs :
          /\ jobs'[j].status # jobs[j].status
                => <<jobs[j].status, jobs'[j].status>> \in JobTransitions
          /\ jobs[j].status \in {"completed", "cancelled"}
                => LinksOf(j)' = LinksOf(j)]_vars

(***************************************************************************)
(* C31: every step that changes the status of an aircraft takes it from    *)
(* active to maintenance while a job is opened, from maintenance to active *)
(* while a job is completed, or to retired; a retired aircraft keeps its   *)
(* status.                                                                 *)
(***************************************************************************)
C31_AircraftStatusTransitions ==
    [][\A reg \in Registrations :
          aircraft'[reg].status # aircraft[reg].status
          => \/ /\ aircraft[reg].status = "active"
                /\ aircraft'[reg].status = "maintenance"
                /\ Len(jobs') = Len(jobs) + 1
             \/ /\ aircraft[reg].status = "maintenance"
                /\ aircraft'[reg].status = "active"
                /\ \E j \in DOMAIN jobs :
                      /\ jobs[j].registration_number = reg
                      /\ jobs[j].status # "completed"
                      /\ jobs'[j].status = "completed"
             \/ /\ aircraft[reg].status # "retired"
                /\ aircraft'[reg].status = "retired"
                /\ jobs' = jobs]_vars

(***************************************************************************)
(* C32: in every reachable state an aircraft with a pending or in_progress *)
(* job is not active, so create_flight on it is refused.                   *)
(***************************************************************************)
C32_OpenJobKeepsAircraftInactive ==
    \A reg \in Registrations :
        OpenJobsOn(reg) # {} => aircraft[reg].status # "active"

\* The engineers whose close_maintenance_job on the job is accepted.
Closers(j) == {e \in Engineers : close_job_error(e, j) = "ok"}

(***************************************************************************)
(* C33: no open job is stuck: in every reachable state every pending or    *)
(* in_progress job has exactly one engineer whose close_maintenance_job    *)
(* is accepted, and that call completes the job and returns an aircraft    *)
(* in maintenance to active.                                               *)
(***************************************************************************)
C33_OpenJobHasOneCloser ==
    \A j \in DOMAIN jobs :
        jobs[j].status \in OpenStatuses
        => /\ Cardinality(Closers(j)) = 1
           /\ \A e \in Closers(j) :
                 ENABLED (close_maintenance_job(e, j, {}) /\ Closed(j))

(***************************************************************************)
(* C34: after any sequence of create_flight, update_flight and             *)
(* delete_flight at most one flight is stored for each (flight_number,     *)
(* date); create_flight on a stored pair and update_flight moving a flight *)
(* onto a stored pair are rejected and change nothing.                     *)
(***************************************************************************)
C34_OneFlightPerNumberAndDate ==
    /\ \A f \in flights, g \in flights :
          (f.flight_number = g.flight_number /\ f.date = g.date) => f = g
    /\ \A req \in RosterCreateRequests :
          FlightByPk(req.flight_number, req.date) # {}
          => /\ create_flight_error(req) # "ok"
             /\ create_flight_rows(req) = flights
    /\ \A f \in flights, upd \in RosterUpdateRequests :
          (Val(upd.date) # f.date
             /\ FlightByPk(f.flight_number, Val(upd.date)) # {})
          => /\ update_flight_error(f.flight_number, f.date, upd) # "ok"
             /\ update_flight_rows(f.flight_number, f.date, upd)
                   = [flights |-> flights, crew_schedules |-> crew_schedules]

\* One flight number is stored on both dates with different times, so that a
\* change of date of either flight meets the other.
C34_Witness ==
    \E f \in flights, g \in flights :
        /\ f.flight_number = g.flight_number
        /\ f.date # g.date
        /\ ~ SharesInstant(f, g)
        /\ \E upd \in RosterUpdateRequests :
              update_flight_error(f.flight_number, f.date, upd) = "DuplicateKey"

(***************************************************************************)
(* C35: the aircraft overlap check takes a candidate interval [a1, a2) and *)
(* a stored interval [b1, b2) of the same aircraft and date as conflicting *)
(* if and only if a1 < b2 and b1 < a2: a candidate that starts at a stored *)
(* arrival or ends at a stored departure is accepted, one that contains,   *)
(* is contained in or partly overlaps a stored interval is rejected.       *)
(***************************************************************************)
C35_ConflictIffIntervalsIntersect ==
    /\ \A f \in flights, a1 \in Slots, a2 \in Slots :
          a1 < a2
          => (f \in overlap_query(f.aircraft_registration, f.date, a1, a2, {})
                <=> (a1 < f.scheduled_arrival_time
                       /\ f.scheduled_departure_time < a2))
    /\ \A req \in IntervalCreateRequests :
          create_flight_error(req) \in {"ok", "AircraftDoubleBooked"}
          => (create_flight_error(req) = "AircraftDoubleBooked"
                <=> \E f \in flights :
                       /\ f.aircraft_registration = req.aircraft_registration
                       /\ f.date = req.date
                       /\ req.scheduled_departure_time < f.scheduled_arrival_time
                       /\ f.scheduled_departure_time < req.scheduled_arrival_time)

\* Two flights are stored back to back, and an interval that strictly
\* contains a stored one is found in conflict with it.
C35_Witness ==
    /\ \E f \in flights, g \in flights :
          /\ f.date = g.date
          /\ f.aircraft_registration = g.aircraft_registration
          /\ f.scheduled_arrival_time = g.scheduled_departure_time
    /\ \E f \in flights, a1 \in Slots, a2 \in Slots :
          /\ a1 < f.scheduled_departure_time
          /\ f.scheduled_arrival_time < a2
          /\ f \in overlap_query(f.aircraft_registration, f.date, a1, a2, {})

\* The rules of create_flight in the order in which they are to be reported,
\* each with whether the request violates it.
CreateRules(req) ==
    LET reg == req.aircraft_registration
        known == reg \in DOMAIN aircraft /\ req.route_id \in DOMAIN routes
    IN  <<[rule |-> "DuplicateKey",
           hit |-> \E f \in flights : /\ f.flight_number = req.flight_number
                                      /\ f.date = req.date],
          [rule |-> "RouteNotFound", hit |-> req.route_id \notin DOMAIN routes],
          [rule |-> "AircraftNotFound", hit |-> reg \notin DOMAIN aircraft],
          [rule |-> "AircraftNotActive",
           hit |-> reg \in DOMAIN aircraft /\ aircraft[reg].status # "active"],
          [rule |-> "CapacityExceeded",
           hit |-> known /\ aircraft[reg].capacity > routes[req.route_id]],
          [rule |-> "DepartureInPast",
           hit |-> \/ req.date < now.date
                   \/ /\ req.date = now.date
                      /\ req.scheduled_departure_time < now.time],
          [rule |-> "ArrivalNotAfterDeparture",
           hit |-> req.scheduled_arrival_time <= req.scheduled_departure_time],
          [rule |-> "AircraftDoubleBooked",
           hit |-> \E f \in flights :
                      /\ f.aircraft_registration = reg
                      /\ f.date = req.date
                      /\ req.scheduled_departure_time < f.scheduled_arrival_time
                      /\ f.scheduled_departure_time
                            < req.scheduled_arrival_time]>>

Violated(rules) == {i \in DOMAIN rules : rules[i].hit}

\* The first violated rule, or "ok".
FirstViolated(rules) ==
    IF Violated(rules) = {} THEN "ok"
    ELSE rules[CHOOSE i \in Violated(rules) :
                  \A k \in Violated(rules) : i <= k].rule

(***************************************************************************)
(* C36: a create_flight request that violates several rules reports the    *)
(* first violated one in the order duplicate (flight_number, date), route  *)
(* not found, aircraft not found, aircraft not active, capacity exceeded,  *)
(* departure in the past, arrival not after departure, aircraft            *)
(* double-booked.                                                          *)
(***************************************************************************)
C36_CreateReportsFirstViolatedRule ==
    \A req \in TodayCreateRequests :
        create_flight_error(req) = FirstViolated(CreateRules(req))

\* Requests exist that violate three rules at once, among them the capacity
\* and a rule on the time window, and one that repeats a stored key.
C36_Witness ==
    /\ \E req \in TodayCreateRequests :
          /\ Cardinality(Violated(CreateRules(req))) >= 3
          /\ {5, 6} \subseteq Violated(CreateRules(req))
    /\ \E req \in TodayCreateRequests :
          /\ 1 \in Violated(CreateRules(req))
          /\ Cardinality(Violated(CreateRules(req))) >= 2

\* The rules of assign_crew_to_flight on a stored flight in the order in
\* which they are to be reported, each with whether the request violates it.
AssignRules(flight, payload) ==
    LET known == Emails(payload) \cap DOMAIN crew
    IN  <<[rule |-> "EmptyRoster", hit |-> payload = <<>>],
          [rule |-> "UnknownCrew", hit |-> Emails(payload) \ DOMAIN crew # {}],
          [rule |-> "NoPilotAssigned",
           hit |-> ~ \E c \in known : crew[c].is_pilot],
          [rule |-> "PastFlight", hit |-> flight_in_past(flight)],
          [rule |-> "CrewDoubleBooked",
           hit |-> \E c \in known : crew_overlap(c, flight) # {}]>>

(***************************************************************************)
(* C37: an assign_crew_to_flight request on a stored flight that violates  *)
(* several rules reports the first violated one in the order empty roster, *)
(* unknown crew, no pilot assigned, past flight, crew double-booked: an    *)
(* unknown e-mail on a flight whose departure has elapsed reports the      *)
(* unknown crew.                                                           *)
(***************************************************************************)
C37_AssignReportsFirstViolatedRule ==
    \A f \in flights, payload \in Payloads :
        assign_crew_error(f.flight_number, f.date, payload)
           = FirstViolated(AssignRules(f, payload))

\* The duration of a flight from dep to arr, minutes of the day.
ElapsedMinutes(dep, arr) ==
    IF arr > dep THEN arr - dep ELSE (arr - dep) + 1440

AssignedFlights(e) ==
    {f \in flights : e \in CrewOf(crew_schedules, f.flight_number, f.date)}

\* The sum of the scheduled durations of a set of flights.
RECURSIVE SumOfDurations(_)
SumOfDurations(fs) ==
    IF fs = {} THEN 0
    ELSE LET f == CHOOSE g \in fs : TRUE
         IN  ElapsedMinutes(f.scheduled_departure_time, f.scheduled_arrival_time)
             + SumOfDurations(fs \ {f})

PastFlights(e) ==
    {f \in AssignedFlights(e) :
        Combine(f.date, f.scheduled_arrival_time) < NowDt}

UpcomingFlights(e) ==
    {f \in AssignedFlights(e) :
        Combine(f.date, f.scheduled_departure_time) >= NowDt}

(***************************************************************************)
(* C39: in a crew member's dashboard the completed total is the sum of the *)
(* durations of exactly the flights (number and date) the member is        *)
(* assigned to whose arrival is before now, the next flight is the         *)
(* assigned flight with the earliest date and departure among those whose  *)
(* departure is at or after now, and no assigned flight is both past and   *)
(* upcoming.                                                               *)
(***************************************************************************)
C39_DashboardOverOwnAssignments ==
    \A e \in CrewEmails :
        LET d == crew_dashboard(e)
        IN  /\ d.total_minutes_completed = SumOfDurations(PastFlights(e))
            /\ d.next_flight
                  = {f \in UpcomingFlights(e) :
                       \A g \in UpcomingFlights(e) :
                          Combine(f.date, f.scheduled_departure_time)
                             <= Combine(g.date, g.scheduled_departure_time)}
            /\ PastFlights(e) \cap UpcomingFlights(e) = {}

====
